---- MODULE Spec2Model ----
(***************************************************************************)
(* Model of the user service (src/user/main.go): the bootstrap in main,    *)
(* the two HTTP handlers createUser and getUsers, and the collaborators    *)
(* they call (blob store, service bus queue, SQL store) as far as the      *)
(* handlers observe them.  Each in-flight request is a process with its    *)
(* own position; the host HTTP server runs the handlers concurrently.      *)
(***************************************************************************)
EXTENDS Integers, Sequences, FiniteSets, TLC

\* ------------------------------------------------------------------ bounds
MaxRequests == 2       \* requests the server receives in one run
MaxRows == 2           \* rows the users table holds

Requests == 1..MaxRequests

\* --------------------------------------------------------- program values
StatusOK == 200
StatusBadRequest == 400
StatusInternalServerError == 500

ContainerName == "profile-pictures"
ZeroTime == "0001-01-01T00:00:00Z"     \* time.Time{} as encoding/json prints it
NoFile == [part |-> "absent", Filename |-> "", content |-> ""]

\* A nullable SQL column value, and the columns of one row of `users`.
Col(v) == [null |-> FALSE, v |-> v]
NullCol == [null |-> TRUE, v |-> ""]

\* The i-th stored row; nullEmail makes its email column NULL.
StoredRow(i, nullEmail) ==
    [id |-> Col(100 + i),
     name |-> Col(IF i % 2 = 1 THEN "ann" ELSE "bob"),
     email |-> IF nullEmail THEN NullCol ELSE Col("u@x.io"),
     link |-> Col("profile-pictures/a.jpg"),
     createdAt |-> Col("2024-05-01T10:00:00Z")]

\* The tables the store may hold: 0..MaxRows rows, any of them with a NULL email.
Tables ==
    UNION {{[i \in 1..n |-> StoredRow(i, i \in bad)] : bad \in SUBSET (1..n)} : n \in 0..MaxRows}

\* The multipart forms a client may post: text fields (a client is free to send
\* id and createdAt too) and an optional photo file part.
FormFields ==
    {[name |-> "ann", email |-> "ann@x.io", id |-> "7", createdAt |-> "2020-01-01T00:00:00Z"],
     [name |-> "bob", email |-> "bob@x.io", id |-> "", createdAt |-> ""]}
Photos ==
    {NoFile,
     [part |-> "malformed", Filename |-> "", content |-> ""],
     [part |-> "file", Filename |-> "a.jpg", content |-> "JPEGDATA"],
     [part |-> "file", Filename |-> "b.png", content |-> "PNGDATA"]}

NoBody == [kind |-> "none"]
NilUsers == [isNil |-> TRUE, elems |-> <<>>]     \* var users []User

VARIABLES
    mainPc,         \* position of main
    fatal,          \* message of the log.Fatal that ended the process, "" if none
    config,         \* the decoded Config, loaded |-> FALSE before decoding
    db,             \* the global *sql.DB: "nil", "open" or "pinged"
    routes,         \* methods registered on /users
    usersTable,     \* rows of the users table in the SQL store
    blobs,          \* objects in the blob store
    queue,          \* message bodies the service bus accepted on user-queue
    pc,             \* per request: position of its handler
    method,         \* per request: HTTP method
    form,           \* per request: the posted form
    profilePicURL,  \* per request: createUser's profilePicURL
    users,          \* per request: getUsers' users slice
    rowsPos,        \* per request: rows of the cursor read so far
    rowsErr,        \* per request: the cursor's rows.Err() is set
    status,         \* per request: response status, 0 before the header is written
    body,           \* per request: response body
    uploadCalls,    \* per request: calls of uploadToBlobStorage
    publishCalls,   \* per request: calls of sendToServiceBus
    sent            \* per request: message bodies SendMessage acknowledged

mainVars == <<mainPc, fatal, config, db, routes>>
storeVars == <<usersTable, blobs, queue>>
reqVars == <<pc, method, form, profilePicURL, users, rowsPos, rowsErr, status, body,
             uploadCalls, publishCalls, sent>>
vars == <<mainPc, fatal, config, db, routes, usersTable, blobs, queue,
          pc, method, form, profilePicURL, users, rowsPos, rowsErr, status, body,
          uploadCalls, publishCalls, sent>>

Init ==
    /\ mainPc = "openConfig"
    /\ fatal = ""
    /\ config = [loaded |-> FALSE]
    /\ db = "nil"
    /\ routes = {}
    /\ usersTable \in Tables
    /\ blobs = {}
    /\ queue = <<>>
    /\ pc = [r \in Requests |-> "idle"]
    /\ method = [r \in Requests |-> ""]
    /\ form = [r \in Requests |-> [fields |-> [name |-> "", email |-> "", id |-> "", createdAt |-> ""],
                                   photo |-> NoFile]]
    /\ profilePicURL = [r \in Requests |-> ""]
    /\ users = [r \in Requests |-> NilUsers]
    /\ rowsPos = [r \in Requests |-> 0]
    /\ rowsErr = [r \in Requests |-> FALSE]
    /\ status = [r \in Requests |-> 0]
    /\ body = [r \in Requests |-> NoBody]
    /\ uploadCalls = [r \in Requests |-> 0]
    /\ publishCalls = [r \in Requests |-> 0]
    /\ sent = [r \in Requests |-> <<>>]

\* ------------------------------------------------------------------- main
\* log.Fatalf: log the message and exit the process.
Fatalf(msg) ==
    /\ mainPc' = "exited"
    /\ fatal' = msg

\* os.Open("config.json")
OpenConfig ==
    /\ mainPc = "openConfig"
    /\ \E ok \in BOOLEAN :
         IF ok THEN mainPc' = "decodeConfig" /\ fatal' = fatal
         ELSE Fatalf("Error opening config file")
    /\ UNCHANGED <<config, db, routes, storeVars, reqVars>>

\* json.NewDecoder(configFile).Decode(&config)
DecodeConfig ==
    /\ mainPc = "decodeConfig"
    /\ \E ok \in BOOLEAN :
         IF ok THEN /\ mainPc' = "sqlOpen"
                    /\ fatal' = fatal
                    /\ config' = [loaded |-> TRUE]
         ELSE Fatalf("Error decoding config file") /\ config' = config
    /\ UNCHANGED <<db, routes, storeVars, reqVars>>

\* initDB: sql.Open
initDBOpen ==
    /\ mainPc = "sqlOpen"
    /\ \E ok \in BOOLEAN :
         IF ok THEN mainPc' = "ping" /\ fatal' = fatal /\ db' = "open"
         ELSE Fatalf("Error connecting to the database") /\ db' = db
    /\ UNCHANGED <<config, routes, storeVars, reqVars>>

\* Variant of initDBPing that logs a failed ping and carries on.
initDBPingCarryOn ==
    /\ mainPc = "ping"
    /\ \E ok \in BOOLEAN :
         /\ mainPc' = "routes"
         /\ fatal' = fatal
         /\ db' = IF ok THEN "pinged" ELSE db
    /\ UNCHANGED <<config, routes, storeVars, reqVars>>

\* initDB: db.Ping
initDBPing ==
    /\ mainPc = "ping"
    /\ \E ok \in BOOLEAN :
         IF ok THEN mainPc' = "routes" /\ fatal' = fatal /\ db' = "pinged"
         ELSE Fatalf("Cannot ping the database") /\ db' = db
    /\ UNCHANGED <<config, routes, storeVars, reqVars>>

\* r.HandleFunc("/users", ...).Methods("GET") and .Methods("POST")
RegisterRoutes ==
    /\ mainPc = "routes"
    /\ routes' = {"GET", "POST"}
    /\ mainPc' = "listen"
    /\ UNCHANGED <<fatal, config, db, storeVars, reqVars>>

\* log.Fatal(http.ListenAndServe(...)): serves until it returns an error.
ListenAndServe ==
    /\ mainPc = "listen"
    /\ \E ok \in BOOLEAN :
         IF ok THEN mainPc' = "serving" /\ fatal' = fatal
         ELSE Fatalf("ListenAndServe")
    /\ UNCHANGED <<config, db, routes, storeVars, reqVars>>

MainStep ==
    \/ OpenConfig
    \/ DecodeConfig
    \/ initDBOpen
    \/ initDBPing
    \/ RegisterRoutes
    \/ ListenAndServe

\* ------------------------------------------------------------ collaborators
\* Variant of blobURL that formats the container alone, so that an upload with
\* an empty container name returns an empty reference.
blobURLNoName(filename) == ""

\* fmt.Sprintf("%s/%s", "profile-pictures", filename)
blobURL(filename) == ContainerName \o "/" \o filename

\* UploadStream into the container: the object of that name is created or replaced.
UploadStream(store, filename, content) ==
    {b \in store : b.name # filename}
        \cup {[name |-> filename, content |-> content, ContentType |-> "image/jpeg"]}

\* The outcomes of uploadToBlobStorage: the client cannot be constructed, the
\* transfer fails, or the stream is stored.
UploadOutcomes == {"clientErr", "uploadErr", "ok"}

\* The value uploadToBlobStorage returns: (blobURL, nil) or ("", err).
uploadToBlobStorage(filename, outcome) ==
    IF outcome = "ok" THEN [url |-> blobURL(filename), err |-> FALSE]
    ELSE [url |-> "", err |-> TRUE]

\* json.Marshal(user), by the struct's json tags.  It cannot fail for a User.
JsonUser(u) ==
    [id |-> u.ID, name |-> u.Name, email |-> u.Email, link |-> u.Link,
     createdAt |-> u.CreatedAt]

\* The outcomes of sendToServiceBus: NewClientFromConnectionString, NewSender or
\* SendMessage fails, or the message is accepted.
SendOutcomes == {"clientErr", "senderErr", "sendErr", "ok"}

\* The messages sendToServiceBus gets acknowledged: one body on success.
sendToServiceBus(user, outcome) ==
    IF outcome = "ok" THEN <<JsonUser(user)>> ELSE <<>>

\* rows.Scan(&user.ID, &user.Name, &user.Email, &user.Link, &user.CreatedAt):
\* a NULL column cannot be stored in an int64, a string or a time.Time.
Scan(row) ==
    IF row.id.null \/ row.name.null \/ row.email.null \/ row.link.null \/ row.createdAt.null
    THEN [err |-> TRUE, user |-> [ID |-> 0, Name |-> "", Email |-> "", Link |-> "", CreatedAt |-> ZeroTime]]
    ELSE [err |-> FALSE,
          user |-> [ID |-> row.id.v, Name |-> row.name.v, Email |-> row.email.v,
                    Link |-> row.link.v, CreatedAt |-> row.createdAt.v]]

\* Variant of append that puts the new user first.
appendFront(us, u) == [isNil |-> FALSE, elems |-> <<u>> \o us.elems]

\* users = append(users, user): a nil slice becomes a slice of one element.
append(us, u) == [isNil |-> FALSE, elems |-> Append(us.elems, u)]

\* json.NewEncoder(w).Encode(users): a nil slice is written as null.
JsonEncodeUsers(us) ==
    IF us.isNil THEN [kind |-> "null"]
    ELSE [kind |-> "array", elems |-> [i \in 1..Len(us.elems) |-> JsonUser(us.elems[i])]]

\* http.Error(w, msg, code), followed by the handler's return.
HttpError(r, msg, code) ==
    /\ status' = [status EXCEPT ![r] = code]
    /\ body' = [body EXCEPT ![r] = [kind |-> "text", text |-> msg]]
    /\ pc' = [pc EXCEPT ![r] = "done"]

\* The first Write of a handler that set no status sends 200.
WriteJSON(r, json) ==
    /\ status' = [status EXCEPT ![r] = StatusOK]
    /\ body' = [body EXCEPT ![r] = json]
    /\ pc' = [pc EXCEPT ![r] = "done"]

\* --------------------------------------------------------------- requests
\* The server, once listening, dispatches a request to the handler its method
\* selects.  Requests are numbered in the order they arrive.
Receive(r) ==
    /\ mainPc = "serving"
    /\ pc[r] = "idle"
    /\ IF r = 1 THEN TRUE ELSE pc[r - 1] # "idle"
    /\ \E m \in routes :
         /\ method' = [method EXCEPT ![r] = m]
         /\ IF m = "POST"
            THEN /\ \E f \in FormFields, p \in Photos :
                      form' = [form EXCEPT ![r] = [fields |-> f, photo |-> p]]
                 /\ pc' = [pc EXCEPT ![r] = "formFile"]
            ELSE /\ form' = form
                 /\ pc' = [pc EXCEPT ![r] = "query"]
    /\ UNCHANGED <<mainVars, storeVars, profilePicURL, users, rowsPos, rowsErr, status, body,
                   uploadCalls, publishCalls, sent>>

\* r.FormFile("photo"): the file and its header, or an error when the form has
\* no such file part or cannot be parsed.
FormFile(f) ==
    IF f.photo.part = "file"
    THEN [err |-> FALSE, Filename |-> f.photo.Filename, file |-> f.photo.content]
    ELSE [err |-> TRUE, Filename |-> "", file |-> ""]

\* Variant of createUserFormFile whose error branch lacks the return.
createUserFormFileNoReturn(r) ==
    /\ pc[r] = "formFile"
    /\ status' = IF FormFile(form[r]).err
                 THEN [status EXCEPT ![r] = StatusBadRequest] ELSE status
    /\ body' = IF FormFile(form[r]).err
               THEN [body EXCEPT ![r] = [kind |-> "text", text |-> "Invalid file upload"]]
               ELSE body
    /\ pc' = [pc EXCEPT ![r] = "upload"]
    /\ UNCHANGED <<mainVars, storeVars, method, form, profilePicURL, users, rowsPos, rowsErr,
                   uploadCalls, publishCalls, sent>>

\* createUser, lines 117-124: read the form, fail with 400 without a photo part.
createUserFormFile(r) ==
    /\ pc[r] = "formFile"
    /\ IF FormFile(form[r]).err
       THEN HttpError(r, "Invalid file upload", StatusBadRequest)
       ELSE /\ pc' = [pc EXCEPT ![r] = "upload"]
            /\ UNCHANGED <<status, body>>
    /\ UNCHANGED <<mainVars, storeVars, method, form, profilePicURL, users, rowsPos, rowsErr,
                   uploadCalls, publishCalls, sent>>

\* Variant of createUserUpload that logs a failed upload and goes on to publish.
createUserUploadNoReturn(r) ==
    /\ pc[r] = "upload"
    /\ uploadCalls' = [uploadCalls EXCEPT ![r] = @ + 1]
    /\ \E outcome \in UploadOutcomes :
         LET header == FormFile(form[r])
             res == uploadToBlobStorage(header.Filename, outcome) IN
           /\ blobs' = IF outcome = "ok"
                       THEN UploadStream(blobs, header.Filename, header.file)
                       ELSE blobs
           /\ profilePicURL' = [profilePicURL EXCEPT ![r] = res.url]
           /\ pc' = [pc EXCEPT ![r] = "send"]
           /\ UNCHANGED <<status, body>>
    /\ UNCHANGED <<mainVars, usersTable, queue, method, form, users, rowsPos, rowsErr,
                   publishCalls, sent>>

\* createUser, lines 126-132: upload the photo, fail with 500 if that fails.
createUserUpload(r) ==
    /\ pc[r] = "upload"
    /\ uploadCalls' = [uploadCalls EXCEPT ![r] = @ + 1]
    /\ \E outcome \in UploadOutcomes :
         LET header == FormFile(form[r])
             res == uploadToBlobStorage(header.Filename, outcome) IN
           /\ blobs' = IF outcome = "ok"
                       THEN UploadStream(blobs, header.Filename, header.file)
                       ELSE blobs
           /\ IF res.err
              THEN /\ HttpError(r, "Error uploading file", StatusInternalServerError)
                   /\ profilePicURL' = profilePicURL
              ELSE /\ profilePicURL' = [profilePicURL EXCEPT ![r] = res.url]
                   /\ pc' = [pc EXCEPT ![r] = "send"]
                   /\ UNCHANGED <<status, body>>
    /\ UNCHANGED <<mainVars, usersTable, queue, method, form, users, rowsPos, rowsErr,
                   publishCalls, sent>>

\* Variant of NewUser that takes the creation timestamp from the form.
NewUserFromForm(r) ==
    [ID |-> 0, Name |-> form[r].fields.name, Email |-> form[r].fields.email,
     Link |-> profilePicURL[r],
     CreatedAt |-> IF form[r].fields.createdAt = "" THEN ZeroTime
                   ELSE form[r].fields.createdAt]

\* createUser, lines 134-139: the User that is published.
NewUser(r) ==
    [ID |-> 0, Name |-> form[r].fields.name, Email |-> form[r].fields.email,
     Link |-> profilePicURL[r], CreatedAt |-> ZeroTime]

\* An INSERT of the user into the users table, the store assigning the id.
InsertUser(table, u) ==
    Append(table, [id |-> Col(100 + Len(table) + 1), name |-> Col(u.Name),
                   email |-> Col(u.Email), link |-> Col(u.Link),
                   createdAt |-> Col("2024-05-01T10:00:00Z")])

\* Variant of createUserSend that deletes the uploaded object when publishing fails.
createUserSendRollback(r) ==
    /\ pc[r] = "send"
    /\ publishCalls' = [publishCalls EXCEPT ![r] = @ + 1]
    /\ \E outcome \in SendOutcomes :
         LET acked == sendToServiceBus(NewUser(r), outcome) IN
           /\ queue' = queue \o acked
           /\ sent' = [sent EXCEPT ![r] = @ \o acked]
           /\ IF outcome # "ok"
              THEN /\ HttpError(r, "Error sending user data", StatusInternalServerError)
                   /\ blobs' = {b \in blobs : b.name # FormFile(form[r]).Filename}
              ELSE /\ WriteJSON(r, [kind |-> "object",
                                    message |-> "User created successfully",
                                    profile_pic_url |-> profilePicURL[r]])
                   /\ blobs' = blobs
    /\ UNCHANGED <<mainVars, usersTable, method, form, profilePicURL, users, rowsPos,
                   rowsErr, uploadCalls>>

\* Variant of createUserSend that also inserts the published user into the table.
createUserSendInsert(r) ==
    /\ pc[r] = "send"
    /\ publishCalls' = [publishCalls EXCEPT ![r] = @ + 1]
    /\ \E outcome \in SendOutcomes :
         LET acked == sendToServiceBus(NewUser(r), outcome) IN
           /\ queue' = queue \o acked
           /\ sent' = [sent EXCEPT ![r] = @ \o acked]
           /\ IF outcome # "ok"
              THEN /\ HttpError(r, "Error sending user data", StatusInternalServerError)
                   /\ usersTable' = usersTable
              ELSE /\ WriteJSON(r, [kind |-> "object",
                                    message |-> "User created successfully",
                                    profile_pic_url |-> profilePicURL[r]])
                   /\ usersTable' = InsertUser(usersTable, NewUser(r))
    /\ UNCHANGED <<mainVars, blobs, method, form, profilePicURL, users, rowsPos,
                   rowsErr, uploadCalls>>

\* createUser, lines 141-153: publish the user, fail with 500 if that fails,
\* otherwise answer with the message and the photo reference.
createUserSend(r) ==
    /\ pc[r] = "send"
    /\ publishCalls' = [publishCalls EXCEPT ![r] = @ + 1]
    /\ \E outcome \in SendOutcomes :
         LET acked == sendToServiceBus(NewUser(r), outcome) IN
           /\ queue' = queue \o acked
           /\ sent' = [sent EXCEPT ![r] = @ \o acked]
           /\ IF outcome # "ok"
              THEN HttpError(r, "Error sending user data", StatusInternalServerError)
              ELSE WriteJSON(r, [kind |-> "object",
                                 message |-> "User created successfully",
                                 profile_pic_url |-> profilePicURL[r]])
    /\ UNCHANGED <<mainVars, usersTable, blobs, method, form, profilePicURL, users, rowsPos,
                   rowsErr, uploadCalls>>

createUser(r) ==
    \/ createUserFormFile(r)
    \/ createUserUpload(r)
    \/ createUserSend(r)

\* getUsers, lines 158-166: db.Query, fail with 500 if it fails.
getUsersQuery(r) ==
    /\ pc[r] = "query"
    /\ \E ok \in BOOLEAN :
         IF ok
         THEN /\ pc' = [pc EXCEPT ![r] = "next"]
              /\ UNCHANGED <<status, body>>
         ELSE HttpError(r, "Error fetching users", StatusInternalServerError)
    /\ UNCHANGED <<mainVars, storeVars, method, form, profilePicURL, users, rowsPos, rowsErr,
                   uploadCalls, publishCalls, sent>>

\* getUsers, lines 167-177: one turn of the loop.  rows.Next() is false when the
\* result set is exhausted and also when fetching the next row fails (rows.Err()
\* then holds the error; the handler does not read it); the loop ends and the
\* users read so far are encoded.
getUsersNext(r) ==
    /\ pc[r] = "next"
    /\ \E fetched \in BOOLEAN :
         IF rowsPos[r] < Len(usersTable) /\ fetched
         THEN LET res == Scan(usersTable[rowsPos[r] + 1]) IN
                /\ rowsPos' = [rowsPos EXCEPT ![r] = @ + 1]
                /\ rowsErr' = rowsErr
                /\ IF res.err
                   THEN /\ HttpError(r, "Error scanning user data", StatusInternalServerError)
                        /\ users' = users
                   ELSE /\ users' = [users EXCEPT ![r] = append(@, res.user)]
                        /\ UNCHANGED <<pc, status, body>>
         ELSE /\ rowsErr' = [rowsErr EXCEPT ![r] = rowsPos[r] < Len(usersTable)]
              /\ WriteJSON(r, JsonEncodeUsers(users[r]))
              /\ UNCHANGED <<users, rowsPos>>
    /\ UNCHANGED <<mainVars, storeVars, method, form, profilePicURL,
                   uploadCalls, publishCalls, sent>>

getUsers(r) ==
    \/ getUsersQuery(r)
    \/ getUsersNext(r)

Next ==
    \/ MainStep
    \/ \E r \in Requests : Receive(r)
    \/ \E r \in Requests : createUser(r)
    \/ \E r \in Requests : getUsers(r)

Spec == Init /\ [][Next]_vars

\* ----------------------------------------------------------------- claims
IsCreate(r) == method[r] = "POST"
IsGet(r) == method[r] = "GET"
Done(r) == pc[r] = "done"

\* The upload of request r was called and returned an error.
UploadFailed(r) == uploadCalls[r] > 0 /\ pc[r] # "upload" /\ profilePicURL[r] = ""
\* The upload of request r returned a reference.
UploadSucceeded(r) == uploadCalls[r] > 0 /\ profilePicURL[r] # ""
\* The publish of request r was called and returned an error.
PublishFailed(r) == publishCalls[r] > 0 /\ pc[r] # "send" /\ sent[r] = <<>>

\* C1: a createUser request without a well-formed photo part is answered 400,
\* and neither the upload nor the publish is ever called for it.
C1_MissingPhotoIs400 ==
    \A r \in Requests :
        (IsCreate(r) /\ form[r].photo.part # "file") =>
            /\ uploadCalls[r] = 0
            /\ publishCalls[r] = 0
            /\ pc[r] \in {"formFile", "done"}
            /\ Done(r) => status[r] = StatusBadRequest

C1_Witness ==
    \E r \in Requests :
        /\ IsCreate(r) /\ form[r].photo.part = "malformed" /\ Done(r)
        /\ status[r] = StatusBadRequest

\* C2: a createUser request whose upload fails is answered 500 and the publish
\* is never called for it.
C2_UploadFailureIs500 ==
    \A r \in Requests :
        (IsCreate(r) /\ UploadFailed(r)) =>
            /\ Done(r)
            /\ status[r] = StatusInternalServerError
            /\ publishCalls[r] = 0
            /\ sent[r] = <<>>

C2_Witness ==
    \E r \in Requests :
        /\ IsCreate(r) /\ form[r].photo.part = "file" /\ UploadFailed(r)
        /\ status[r] = StatusInternalServerError

\* C3: a createUser request whose upload succeeds and whose publish fails is
\* answered 500, and the object it uploaded is still in the blob store.
C3_PublishFailureKeepsBlob ==
    \A r \in Requests :
        (IsCreate(r) /\ UploadSucceeded(r) /\ PublishFailed(r)) =>
            /\ Done(r)
            /\ status[r] = StatusInternalServerError
            /\ \E b \in blobs : b.name = form[r].photo.Filename

C3_Witness ==
    \E r \in Requests :
        /\ IsCreate(r) /\ UploadSucceeded(r) /\ PublishFailed(r)
        /\ status[r] = StatusInternalServerError
        /\ \E b \in blobs : b.name = form[r].photo.Filename /\ b.content = form[r].photo.content

\* C4: a createUser request whose upload and publish both succeed is answered
\* 200 with the message "User created successfully" and a non-empty
\* profile_pic_url, the reference the upload of its photo returns.
C4_SuccessResponse ==
    \A r \in Requests :
        (IsCreate(r) /\ publishCalls[r] > 0 /\ pc[r] # "send" /\ sent[r] # <<>>) =>
            /\ Done(r)
            /\ status[r] = StatusOK
            /\ body[r].kind = "object"
            /\ body[r].message = "User created successfully"
            /\ body[r].profile_pic_url # ""
            /\ body[r].profile_pic_url
                   = uploadToBlobStorage(form[r].photo.Filename, "ok").url

C4_Witness ==
    \E r \in Requests :
        /\ IsCreate(r) /\ Done(r) /\ status[r] = StatusOK
        /\ body[r].kind = "object"
        /\ body[r].profile_pic_url = "profile-pictures/b.png"

\* C5: getUsers on an empty table, the query succeeding, answers 200 with the
\* empty JSON array.
C5_EmptyTableIsEmptyArray ==
    \A r \in Requests :
        (IsGet(r) /\ Done(r) /\ usersTable = <<>>
            /\ body[r] # [kind |-> "text", text |-> "Error fetching users"]) =>
            /\ status[r] = StatusOK
            /\ body[r] = [kind |-> "array", elems |-> <<>>]

\* The user objects a response body carries.
UserObjects(b) == IF b.kind = "array" THEN b.elems ELSE <<>>

\* The JSON object of a stored row.
RowObject(row) ==
    [id |-> row.id.v, name |-> row.name.v, email |-> row.email.v, link |-> row.link.v,
     createdAt |-> row.createdAt.v]

\* Every row of the table can be scanned.
AllRowsScan == \A i \in 1..Len(usersTable) : ~Scan(usersTable[i]).err

\* C6: when the table holds N rows and the query, the fetch of every row and
\* every scan succeed, getUsers answers 200 with exactly N user objects, the
\* i-th equal field for field to the i-th row.
C6_AllRowsInOrder ==
    \A r \in Requests :
        (IsGet(r) /\ Done(r) /\ AllRowsScan /\ ~rowsErr[r]
            /\ body[r] # [kind |-> "text", text |-> "Error fetching users"]) =>
            /\ status[r] = StatusOK
            /\ Len(UserObjects(body[r])) = Len(usersTable)
            /\ \A i \in 1..Len(usersTable) :
                   UserObjects(body[r])[i] = RowObject(usersTable[i])

C6_Witness ==
    \E r \in Requests :
        /\ IsGet(r) /\ Done(r) /\ status[r] = StatusOK /\ ~rowsErr[r]
        /\ Len(usersTable) = MaxRows
        /\ body[r].kind = "array"
        /\ Len(body[r].elems) = MaxRows

\* C7: getUsers never returns a partial result: a 200 response carries the
\* complete result set, and a failure of the query, of a scan or of the
\* iteration is answered 500.
C7_NoPartialResult ==
    \A r \in Requests :
        (IsGet(r) /\ Done(r)) =>
            /\ status[r] = StatusOK =>
                   /\ ~rowsErr[r]
                   /\ Len(UserObjects(body[r])) = Len(usersTable)
            /\ status[r] # StatusOK =>
                   /\ status[r] = StatusInternalServerError
                   /\ body[r].kind = "text"

\* C8: no step of createUser changes the users table.
C8_CreateLeavesTable ==
    [][(\E r \in Requests : createUser(r)) => usersTable' = usersTable]_vars

C8_Witness ==
    \E r, q \in Requests :
        /\ r < q
        /\ IsCreate(r) /\ Done(r) /\ status[r] = StatusOK
        /\ IsGet(q) /\ Done(q) /\ status[q] = StatusOK
        /\ Len(UserObjects(body[q])) = MaxRows

\* C9: a createUser request answered 200 has published exactly one message,
\* the user with the form's name and email, the reference of its upload, and
\* zero id and creation time; a request answered otherwise has none
\* acknowledged; the queue holds one message for each request answered 200.
C9_OneMessagePerSuccess ==
    /\ \A r \in Requests :
         IsCreate(r) =>
           /\ status[r] = StatusOK =>
                /\ publishCalls[r] = 1
                /\ sent[r] = <<[id |-> 0,
                                name |-> form[r].fields.name,
                                email |-> form[r].fields.email,
                                link |-> profilePicURL[r],
                                createdAt |-> ZeroTime]>>
                /\ profilePicURL[r] = ContainerName \o "/" \o form[r].photo.Filename
           /\ status[r] # StatusOK => sent[r] = <<>>
           /\ publishCalls[r] <= 1
    /\ Len(queue) = Cardinality({r \in Requests : IsCreate(r) /\ status[r] = StatusOK})

C9_Witness ==
    \E r \in Requests :
        /\ IsCreate(r) /\ status[r] = StatusOK
        /\ form[r].fields.id = "7"
        /\ Len(sent[r]) = 1
        /\ sent[r][1].id = 0

StartupFailures ==
    {"Error opening config file", "Error decoding config file",
     "Error connecting to the database", "Cannot ping the database"}

\* C10: routes are registered and requests handled only after the config was
\* decoded and the store opened and pinged; when one of these fails the
\* process has exited with no route registered and no request handled.
C10_FailFastStartup ==
    /\ (routes # {} \/ mainPc \in {"listen", "serving"} \/ \E r \in Requests : pc[r] # "idle") =>
          /\ config.loaded
          /\ db = "pinged"
    /\ (\E r \in Requests : pc[r] # "idle") => routes = {"GET", "POST"}
    /\ fatal \in StartupFailures =>
          /\ mainPc = "exited"
          /\ routes = {}
          /\ \A r \in Requests : pc[r] = "idle"
    /\ mainPc = "exited" <=> fatal # ""
    /\ (~config.loaded /\ mainPc # "exited") => mainPc \in {"openConfig", "decodeConfig"}
    /\ (db # "pinged" /\ mainPc # "exited") =>
          mainPc \in {"openConfig", "decodeConfig", "sqlOpen", "ping"}

C10_Witness ==
    /\ mainPc = "serving"
    /\ \A r \in Requests : Done(r)
====
